---- MODULE Spec2Model ----
(***************************************************************************)
(* Model of the visitor-classification server (src/server.js): the bot     *)
(* detection middleware with its sliding-window rate table, the            *)
(* /api/verify-human score aggregator with its fingerprint ledger, and the *)
(* stateless proof-of-work exchange.                                       *)
(*                                                                         *)
(* Strings that the code inspects character by character (user-agent,      *)
(* path, forwarding header) are sequences of one-character strings.        *)
(* JavaScript values that may be absent are tagged records, see Truthy.    *)
(* Scores of /api/verify-human are held in half-points (Pts(1) = 2),       *)
(* because clientScore * 0.5 may end in .5.                                *)
(***************************************************************************)
EXTENDS Integers, Sequences, FiniteSets, TLC

VARIABLES
    now,              \* the value Date.now() returns
    rateLimitStore,   \* Map: client IP -> sequence of request timestamps
    fingerprintStore, \* Map: fingerprint hash -> [ip, count, firstSeen, lastSeen]
    REDIRECT_URL,     \* process.env.REDIRECT_URL, read once at start-up
    req,              \* the request handled last, with its request-scoped state
    res,              \* the response sent for it
    requestLog,       \* history: client IP -> times of all its classified requests
    firstObserver,    \* history: fingerprint hash -> IP of its first observation ever
    swept,            \* history: the rate-table sweep ran in the step just taken
    browser,          \* the visitor's environment: navigator, window, document
    detector,         \* d, the AdvancedBotDetector of the page: score, checks, fingerprint
    pc,               \* the position of the page script and of d.detect()
    permissionsQuery, \* the promise checkPermissionsAsync awaits
    result            \* r, the object detect() returned to the page script

clientVars == <<browser, detector, pc, permissionsQuery, result>>

vars == <<now, rateLimitStore, fingerprintStore, REDIRECT_URL, req, res,
          requestLog, firstObserver, swept, browser, detector, pc,
          permissionsQuery, result>>

-----------------------------------------------------------------------------
(* JavaScript values *)

JSUndefined == [type |-> "undefined"]
JSNull == [type |-> "null"]
Num(n) == [type |-> "number", val |-> n]
Str(s) == [type |-> "string", val |-> s]
Obj(o) == [type |-> "object", val |-> o]

\* ToBoolean: undefined, null, 0 and '' are falsy, every object is truthy
Truthy(v) ==
    CASE v.type = "undefined" -> FALSE
      [] v.type = "null" -> FALSE
      [] v.type = "number" -> v.val # 0
      [] v.type = "string" -> v.val # <<>>
      [] OTHER -> TRUE

\* a || b
OrElse(a, b) == IF Truthy(a) THEN a ELSE b

-----------------------------------------------------------------------------
(* Strings *)

\* String.prototype.toLowerCase on one character
UpperToLower ==
    [c \in {"A","B","C","D","E","F","G","H","I","J","K","L","M",
            "N","O","P","Q","R","S","T","U","V","W","X","Y","Z"} |->
        CASE c = "A" -> "a" [] c = "B" -> "b" [] c = "C" -> "c" [] c = "D" -> "d"
          [] c = "E" -> "e" [] c = "F" -> "f" [] c = "G" -> "g" [] c = "H" -> "h"
          [] c = "I" -> "i" [] c = "J" -> "j" [] c = "K" -> "k" [] c = "L" -> "l"
          [] c = "M" -> "m" [] c = "N" -> "n" [] c = "O" -> "o" [] c = "P" -> "p"
          [] c = "Q" -> "q" [] c = "R" -> "r" [] c = "S" -> "s" [] c = "T" -> "t"
          [] c = "U" -> "u" [] c = "V" -> "v" [] c = "W" -> "w" [] c = "X" -> "x"
          [] c = "Y" -> "y" [] c = "Z" -> "z"]

ToLowerChar(c) == IF c \in DOMAIN UpperToLower THEN UpperToLower[c] ELSE c

ToLower(s) == [i \in 1..Len(s) |-> ToLowerChar(s[i])]

\* the literal lit occurs in s at position i, ignoring case (the /i flag)
OccursAt(lit, s, i) ==
    /\ i + Len(lit) - 1 <= Len(s)
    /\ \A k \in 1..Len(lit) : ToLowerChar(s[i + k - 1]) = ToLowerChar(lit[k])

\* regex a.*b.*c as the sequence of its literals <<a, b, c>>, searched from position i
RECURSIVE MatchFrom(_, _, _)
MatchFrom(parts, s, i) ==
    IF parts = <<>> THEN TRUE
    ELSE \E j \in i..(Len(s) + 1) :
            /\ OccursAt(Head(parts), s, j)
            /\ MatchFrom(Tail(parts), s, j + Len(Head(parts)))

\* pattern.test(s)
Test(pattern, s) == MatchFrom(pattern, s, 1)

Contains(seq, x) == \E i \in 1..Len(seq) : seq[i] = x

StartsWith(s, prefix) ==
    /\ Len(prefix) <= Len(s)
    /\ SubSeq(s, 1, Len(prefix)) = prefix

EndsWith(s, suffix) ==
    /\ Len(suffix) <= Len(s)
    /\ SubSeq(s, Len(s) - Len(suffix) + 1, Len(s)) = suffix

\* s.split(',')[0]
SplitFirst(s) ==
    IF \E i \in 1..Len(s) : s[i] = ","
    THEN SubSeq(s, 1, (CHOOSE i \in 1..Len(s) : s[i] = "," /\ \A k \in 1..(i - 1) : s[k] # ",") - 1)
    ELSE s

\* s.trim()
RECURSIVE Trim(_)
Trim(s) ==
    IF s = <<>> THEN s
    ELSE IF Head(s) = " " THEN Trim(Tail(s))
    ELSE IF s[Len(s)] = " " THEN Trim(SubSeq(s, 1, Len(s) - 1))
    ELSE s

-----------------------------------------------------------------------------
(* Request paths and the /api/ and .js markers the middleware looks for *)

PATH_ROOT == <<"/">>
PATH_HEALTH == <<"/", "h", "e", "a", "l", "t", "h">>
PATH_VERIFY_HUMAN == <<"/", "a", "p", "i", "/", "v", "e", "r", "i", "f", "y", "-", "h", "u", "m", "a", "n">>
PATH_CHALLENGE == <<"/", "a", "p", "i", "/", "c", "h", "a", "l", "l", "e", "n", "g", "e">>
PATH_VERIFY_POW == <<"/", "a", "p", "i", "/", "v", "e", "r", "i", "f", "y", "-", "p", "o", "w">>
PATH_SCRIPT == <<"/", "a", "1", "b", "2", ".", "j", "s">>
PATH_PAGE == <<"/", "p", "r", "o", "m", "o">>
API_PREFIX == <<"/", "a", "p", "i", "/">>
JS_SUFFIX == <<".", "j", "s">>

-----------------------------------------------------------------------------
(* Helper to get the real client IP from forwarded headers *)

getClientIP(r) ==
    IF Truthy(r.xForwardedFor)
    THEN Trim(SplitFirst(r.xForwardedFor.val))
    ELSE OrElse(r.xRealIp, Str(r.ip)).val

-----------------------------------------------------------------------------
(* Bot detection middleware *)

\* the user-agent catalog; each pattern is the sequence of its literals around .*
botPatterns == <<
    << <<"P", "r", "o", "o", "f", "P", "o", "i", "n", "t">> >>,
    << <<"M", "i", "m", "e", "c", "a", "s", "t">> >>,
    << <<"B", "a", "r", "r", "a", "c", "u", "d", "a">> >>,
    << <<"S", "a", "f", "e", "R", "e", "d", "i", "r", "e", "c", "t">> >>,
    << <<"E", "m", "a", "i", "l", "S", "c", "a", "n", "n", "e", "r">> >>,
    << <<"M", "a", "i", "l", "S", "c", "a", "n", "n", "e", "r">> >>,
    << <<"A", "T", "P">> >>,
    << <<"A", "d", "v", "a", "n", "c", "e", "d">>, <<"T", "h", "r", "e", "a", "t">> >>,
    << <<"L", "i", "n", "k">>, <<"S", "c", "a", "n", "n", "e", "r">> >>,
    << <<"S", "e", "c", "u", "r", "i", "t", "y">>, <<"S", "c", "a", "n", "n", "e", "r">> >>,
    << <<"U", "R", "L">>, <<"S", "c", "a", "n", "n", "e", "r">> >>,
    << <<"I", "r", "o", "n", "P", "o", "r", "t">> >>,
    << <<"F", "o", "r", "t", "i", "M", "a", "i", "l">> >>,
    << <<"S", "o", "p", "h", "o", "s">> >>,
    << <<"H", "e", "a", "d", "l", "e", "s", "s", "C", "h", "r", "o", "m", "e">> >>,
    << <<"P", "h", "a", "n", "t", "o", "m", "J", "S">> >>,
    << <<"N", "i", "g", "h", "t", "m", "a", "r", "e">> >>,
    << <<"S", "e", "l", "e", "n", "i", "u", "m">> >>,
    << <<"W", "e", "b", "D", "r", "i", "v", "e", "r">> >>,
    << <<"P", "u", "p", "p", "e", "t", "e", "e", "r">> >>,
    << <<"P", "l", "a", "y", "w", "r", "i", "g", "h", "t">> >>,
    << <<"C", "y", "p", "r", "e", "s", "s">> >>,
    << <<"T", "e", "s", "t", "C", "a", "f", "e">> >>,
    << <<"C", "h", "r", "o", "m", "e", "D", "r", "i", "v", "e", "r">> >>,
    << <<"b", "o", "t">> >>,
    << <<"c", "r", "a", "w", "l">> >>,
    << <<"s", "p", "i", "d", "e", "r">> >>,
    << <<"s", "c", "r", "a", "p", "e">> >>,
    << <<"c", "u", "r", "l">> >>,
    << <<"w", "g", "e", "t">> >>,
    << <<"p", "y", "t", "h", "o", "n", "-", "r", "e", "q", "u", "e", "s", "t", "s">> >>,
    << <<"p", "y", "t", "h", "o", "n", "-", "u", "r", "l", "l", "i", "b">> >>,
    << <<"n", "o", "d", "e", "-", "f", "e", "t", "c", "h">> >>,
    << <<"a", "x", "i", "o", "s">> >>,
    << <<"o", "k", "h", "t", "t", "p">> >>,
    << <<"A", "p", "a", "c", "h", "e", "-", "H", "t", "t", "p", "C", "l", "i", "e", "n", "t">> >>,
    << <<"J", "a", "v", "a", "/">> >>,
    << <<"G", "o", "-", "h", "t", "t", "p", "-", "c", "l", "i", "e", "n", "t">> >>,
    << <<"l", "i", "b", "w", "w", "w", "-", "p", "e", "r", "l">> >>,
    << <<"m", "o", "n", "i", "t", "o", "r">> >>,
    << <<"c", "h", "e", "c", "k">> >>,
    << <<"v", "a", "l", "i", "d", "a", "t", "o", "r">> >>,
    << <<"p", "r", "e", "v", "i", "e", "w">> >>,
    << <<"u", "p", "t", "i", "m", "e">> >>,
    << <<"p", "i", "n", "g", "d", "o", "m">> >>,
    << <<"S", "t", "a", "t", "u", "s", "C", "a", "k", "e">> >>
>>

rateLimitWindow == 60000
maxRequests == 10

SkipBotDetection(path) ==
    \/ EndsWith(path, JS_SUFFIX)
    \/ StartsWith(path, API_PREFIX)
    \/ path = PATH_HEALTH

\* req.get('user-agent') || ''
UserAgentOf(r) == OrElse(r.userAgent, Str(<<>>)).val

\* botPatterns.some(pattern => pattern.test(userAgent))
SomePatternMatches(userAgent) ==
    \E i \in 1..Len(botPatterns) : Test(botPatterns[i], userAgent)

MissingUA(userAgent) == userAgent = <<>> \/ Len(userAgent) < 5

\* a filter that keeps a timestamp exactly one window old
InWindowInclusive(requests, t) ==
    SelectSeq(requests, LAMBDA time : t - time <= rateLimitWindow)

\* requests.filter(time => now - time < rateLimitWindow)
InWindow(requests, t) == SelectSeq(requests, LAMBDA time : t - time < rateLimitWindow)

-----------------------------------------------------------------------------
(* User-agent header values the requests of the model carry *)

UA_curl == <<"c", "u", "r", "l", "/", "7", ".", "6", "8", ".", "0">>
UA_browser == <<"M", "o", "z", "i", "l", "l", "a", "/", "5", ".", "0">>
UA_short == <<"M", "o", "z">>
UA_crawler == <<"G", "o", "o", "g", "l", "e", "b", "o", "t", " ", "s", "p", "i", "d", "e", "r">>
UA_scanner == <<"U", "R", "L", "-", "S", "c", "a", "n", "n", "e", "r">>
UA_bot == <<"B", "o", "t">>

UserAgents == {<<>>, UA_curl, UA_browser, UA_short, UA_crawler, UA_scanner, UA_bot}

\* the catalog match of each of them, evaluated once
CatalogMatch == [ua \in UserAgents |-> SomePatternMatches(ua)]

isBotUA(userAgent) ==
    IF userAgent \in UserAgents THEN CatalogMatch[userAgent]
    ELSE SomePatternMatches(userAgent)

\* an analysis that scores and signals once per matching pattern
UserAgentAnalysisPerPattern(userAgent) ==
    LET hits == Cardinality({i \in 1..Len(botPatterns) : Test(botPatterns[i], userAgent)})
    IN  [score |-> 60 * hits, signals |-> [k \in 1..hits |-> "bot-ua"]]

\* if (isBotUA) { req.botScore += 60; req.botSignals.push('bot-ua'); }
UserAgentAnalysis(userAgent) ==
    IF isBotUA(userAgent) THEN [score |-> 60, signals |-> <<"bot-ua">>]
    ELSE [score |-> 0, signals |-> <<>>]

-----------------------------------------------------------------------------
(* Map of the JavaScript runtime, as a function on the set of its keys *)

Has(m, k) == k \in DOMAIN m
MapSet(m, k, v) == [x \in (DOMAIN m) \cup {k} |-> IF x = k THEN v ELSE m[x]]

EmptyMap == [x \in {} |-> 0]

-----------------------------------------------------------------------------
(* 3. Rate limiting by IP *)

\* a write-back that forgets what the table held for clientIP
RateLimitRequestsOverwriting(store, clientIP, t) == <<t>>

\* the timestamps kept for clientIP after this request, appended to the filtered ones
RateLimitRequests(store, clientIP, t) ==
    IF ~Has(store, clientIP) THEN <<t>>
    ELSE Append(InWindow(store[clientIP], t), t)

\* requests.length > maxRequests, tested only for an IP the table already holds
RateLimitExceeded(store, clientIP, t) ==
    /\ Has(store, clientIP)
    /\ Len(RateLimitRequests(store, clientIP, t)) > maxRequests

\* a sweep that filters every sequence but deletes no identity
SweepWithoutDelete(store, t) == [ip \in DOMAIN store |-> InWindow(store[ip], t)]

\* Clean up old rate limit entries
SweepRateLimit(store, t) ==
    LET kept == {ip \in DOMAIN store : Len(InWindow(store[ip], t)) # 0}
    IN  [ip \in kept |-> InWindow(store[ip], t)]

\* a block that starts at 100 instead of 80
HardBlockFrom100(botScore) == botScore >= 100

\* HARD BLOCK: Definite bots (score >= 80)
HardBlock(botScore) == botScore >= 80

\* the middleware on request r: its request-scoped state, the table it leaves and
\* whether it answered itself (blocked) instead of calling next()
BotDetection(r, store, t, sweep) ==
    IF SkipBotDetection(r.path)
    THEN [botScore |-> JSUndefined, botSignals |-> JSUndefined,
          store |-> store, blocked |-> FALSE]
    ELSE
      LET userAgent == UserAgentOf(r)
          clientIP == getClientIP(r)
          s1 == UserAgentAnalysis(userAgent).score
          g1 == UserAgentAnalysis(userAgent).signals
          s2 == IF MissingUA(userAgent) THEN 50 ELSE 0
          g2 == IF MissingUA(userAgent) THEN <<"missing-ua">> ELSE <<>>
          exceeded == RateLimitExceeded(store, clientIP, t)
          s3 == IF exceeded THEN 40 ELSE 0
          g3 == IF exceeded THEN <<"rate-limit-exceeded">> ELSE <<>>
          limited == MapSet(store, clientIP, RateLimitRequests(store, clientIP, t))
          botScore == s1 + s2 + s3
      IN  [botScore |-> Num(botScore),
           botSignals |-> Obj(g1 \o g2 \o g3),
           store |-> IF sweep THEN SweepRateLimit(limited, t) ELSE limited,
           blocked |-> HardBlock(botScore)]

\* the handler a page request reaches after the middleware
Route(r) ==
    IF r.path = PATH_ROOT
      THEN [status |-> 200, body |-> "page", cookie |-> OrElse(r.botScore, Num(0)).val]
    ELSE IF r.path = PATH_HEALTH
      THEN [status |-> 200, body |-> "health"]
    ELSE IF EndsWith(r.path, JS_SUFFIX)
      THEN [status |-> 200, body |-> "script"]
    ELSE [status |-> 404, body |-> "not-found"]

InertPage == [status |-> 200, body |-> "inert"]

\* r with the request-scoped state the middleware attached to it
Scoped(r, bd) ==
    [path |-> r.path, userAgent |-> r.userAgent, xForwardedFor |-> r.xForwardedFor,
     xRealIp |-> r.xRealIp, ip |-> r.ip, body |-> r.body,
     botScore |-> bd.botScore, botSignals |-> bd.botSignals]

\* history of classified requests, kept beside the program
Logged(log, r, t) ==
    IF SkipBotDetection(r.path) THEN log
    ELSE LET ip == getClientIP(r)
         IN  MapSet(log, ip, IF Has(log, ip) THEN Append(log[ip], t) ELSE <<t>>)

\* a GET request: middleware, then the route
PageRequest(r, sweep) ==
    LET bd == BotDetection(r, rateLimitStore, now, sweep)
    IN  /\ rateLimitStore' = bd.store
        /\ req' = Scoped(r, bd)
        /\ res' = IF bd.blocked THEN InertPage ELSE Route(Scoped(r, bd))
        /\ requestLog' = Logged(requestLog, r, now)
        /\ swept' = (sweep /\ ~SkipBotDetection(r.path))
        /\ UNCHANGED <<now, fingerprintStore, REDIRECT_URL, firstObserver>>
        /\ UNCHANGED clientVars

\* time passes between requests
Tick(d, until) ==
    /\ now + d <= until
    /\ now' = now + d
    /\ swept' = FALSE
    /\ UNCHANGED <<rateLimitStore, fingerprintStore, REDIRECT_URL, req, res,
                   requestLog, firstObserver>>
    /\ UNCHANGED clientVars

-----------------------------------------------------------------------------
(* POST /api/verify-human *)

maxAge == 86400000

\* a configured target new URL() accepts, and one it rejects (no scheme)
TARGET_URL == "https://example.com"
TARGET_BAD == "example.com/landing"

\* n points in half-points
Pts(n) == 2 * n

\* a validation that forgets behaviors
MissingFingerprintOnly(body) == ~Truthy(body.fingerprint)

\* !fingerprint || !behaviors
MissingRequiredData(body) == ~Truthy(body.fingerprint) \/ ~Truthy(body.behaviors)

\* let totalScore = req.botScore || 0
ServerScore(r) == Pts(OrElse(r.botScore, Num(0)).val)

\* [...(req.botSignals || [])]
ServerSignals(r) == IF Truthy(r.botSignals) THEN r.botSignals.val ELSE <<>>

\* (clientScore || 0) * 0.5
ClientShare(body) == OrElse(body.clientScore, Num(0)).val

CdpDetected(checks) == Truthy(checks) /\ checks.val.cdp
WebDriverDetected(checks) == Truthy(checks) /\ checks.val.webdriver
AutomationArtifacts(checks) == Truthy(checks) /\ Len(checks.val.automationArtifacts) > 0
HeadlessBrowser(checks) == Truthy(checks) /\ Len(checks.val.headlessSignals) >= 2

\* the bonuses re-scored from the raw checks
ChecksScore(checks) ==
    (IF CdpDetected(checks) THEN Pts(60) ELSE 0)
    + (IF WebDriverDetected(checks) THEN Pts(70) ELSE 0)
    + (IF AutomationArtifacts(checks) THEN Pts(65) ELSE 0)
    + (IF HeadlessBrowser(checks) THEN Pts(50) ELSE 0)

ChecksSignals(checks) ==
    (IF CdpDetected(checks) THEN <<"cdp-detected">> ELSE <<>>)
    \o (IF WebDriverDetected(checks) THEN <<"webdriver-detected">> ELSE <<>>)
    \o (IF AutomationArtifacts(checks) THEN <<"automation-artifacts">> ELSE <<>>)
    \o (IF HeadlessBrowser(checks) THEN <<"headless-browser">> ELSE <<>>)

\* JSON.stringify of an object given as the sequence of its <<key, value>> properties
RECURSIVE Members(_)
Members(props) ==
    IF props = <<>> THEN <<>>
    ELSE <<Head(props)[1], ":", Head(props)[2]>>
         \o (IF Len(props) > 1 THEN <<",">> ELSE <<>>)
         \o Members(Tail(props))

Stringify(v) == <<"{">> \o Members(v.val) \o <<"}">>

\* the md5 digest, named by the text it digests (no collisions)
MD5Hex(text) == [md5 |-> text]

fpHashOf(fingerprint) == MD5Hex(Stringify(fingerprint))

\* a test that flags every repeated fingerprint
KnownFingerprint(store, fpHash, clientIP) == Has(store, fpHash)

\* stored.ip !== clientIP, for a fingerprint the ledger holds
FingerprintReuse(store, fpHash, clientIP) ==
    /\ Has(store, fpHash)
    /\ store[fpHash].ip # clientIP

\* an update that moves the record to the observing IP
ObserveTakingOver(store, fpHash, clientIP, t, e) ==
    MapSet(store, fpHash,
           [ip |-> clientIP,
            count |-> IF Has(store, fpHash) THEN store[fpHash].count + 1 ELSE 1,
            firstSeen |-> IF Has(store, fpHash) THEN store[fpHash].firstSeen ELSE t,
            lastSeen |-> IF Has(store, fpHash) THEN t ELSE t + e])

\* an update that forgets stored.lastSeen = Date.now()
ObserveKeepingLastSeen(store, fpHash, clientIP, t, e) ==
    IF Has(store, fpHash)
    THEN MapSet(store, fpHash,
                [ip |-> store[fpHash].ip, count |-> store[fpHash].count + 1,
                 firstSeen |-> store[fpHash].firstSeen,
                 lastSeen |-> store[fpHash].lastSeen])
    ELSE MapSet(store, fpHash,
                [ip |-> clientIP, count |-> 1, firstSeen |-> t, lastSeen |-> t + e])

\* Store fingerprint for analysis; e ms pass between the two Date.now() of a new record
Observe(store, fpHash, clientIP, t, e) ==
    IF Has(store, fpHash)
    THEN MapSet(store, fpHash,
                [ip |-> store[fpHash].ip, count |-> store[fpHash].count + 1,
                 firstSeen |-> store[fpHash].firstSeen, lastSeen |-> t])
    ELSE MapSet(store, fpHash,
                [ip |-> clientIP, count |-> 1, firstSeen |-> t, lastSeen |-> t + e])

\* Clean up old fingerprints
SweepFingerprints(store, t) ==
    [hash \in {h \in DOMAIN store : ~(t - store[h].lastSeen > maxAge)} |-> store[hash]]

\* a gate one point late
isBotAbove(totalScore) == totalScore > Pts(80)

isBot(totalScore) == totalScore >= Pts(80)

Verdict(totalScore) ==
    IF totalScore >= Pts(100) THEN "bot"
    ELSE IF totalScore >= Pts(80) THEN "likely-bot"
    ELSE IF totalScore >= Pts(50) THEN "suspicious"
    ELSE "human"

\* new URL(raw): the parts of a well-formed target, or a TypeError
ParseURL(raw) ==
    IF raw = TARGET_URL
    THEN [ok |-> TRUE, protocol |-> "https:", hostname |-> "example.com",
          pathname |-> <<"/">>, search |-> <<>>]
    ELSE [ok |-> FALSE]

\* a reply that reveals the target whatever the decision
RedirectAlways(bot, target, urlParams, randomSubdomain) ==
    [type |-> "url", val |-> target]

\* Build final redirect URL with query params and path
FinalRedirectUrl(bot, target, urlParams, randomSubdomain) ==
    IF ~bot /\ target # ""
    THEN IF ParseURL(target).ok
         THEN LET baseUrl == ParseURL(target)
              IN  [type |-> "url",
                   val |-> [protocol |-> baseUrl.protocol,
                            hostname |-> <<randomSubdomain, ".", baseUrl.hostname>>,
                            pathname |-> IF Truthy(urlParams) /\ Truthy(urlParams.val.path)
                                         THEN urlParams.val.path.val
                                         ELSE baseUrl.pathname,
                            search |-> IF Truthy(urlParams) /\ Truthy(urlParams.val.query)
                                       THEN urlParams.val.query.val
                                       ELSE baseUrl.search]]
         ELSE [type |-> "url", val |-> target]
    ELSE JSNull

MissingData == [status |-> 400, body |-> "error", error |-> "Missing required data"]

\* the handler: sweepMW is the middleware's Math.random(), sweep the handler's,
\* randomSubdomain the label crypto.randomBytes gives, e the ms the handler takes
VerifyHuman(r, sweepMW, randomSubdomain, sweep, e, until) ==
    LET bd == BotDetection(r, rateLimitStore, now, sweepMW)
        scoped == Scoped(r, bd)
        body == r.body.val
        clientIP == getClientIP(r)
        fpHash == fpHashOf(body.fingerprint)
        reuse == FingerprintReuse(fingerprintStore, fpHash, clientIP)
        totalScore == ServerScore(scoped) + ClientShare(body) + ChecksScore(body.checks)
                      + (IF reuse THEN Pts(20) ELSE 0)
        signals == ServerSignals(scoped) \o ChecksSignals(body.checks)
                   \o (IF reuse THEN <<"fingerprint-reuse">> ELSE <<>>)
        observed == Observe(fingerprintStore, fpHash, clientIP, now, e)
    IN  /\ r.path = PATH_VERIFY_HUMAN
        /\ ~bd.blocked
        /\ rateLimitStore' = bd.store
        /\ requestLog' = Logged(requestLog, r, now)
        /\ req' = scoped
        /\ IF MissingRequiredData(body)
           THEN /\ res' = MissingData
                /\ UNCHANGED <<now, fingerprintStore, firstObserver>>
           ELSE /\ now + e <= until
                /\ now' = now + e
                /\ firstObserver' = IF Has(firstObserver, fpHash) THEN firstObserver
                                    ELSE MapSet(firstObserver, fpHash, clientIP)
                /\ fingerprintStore' =
                     IF sweep THEN SweepFingerprints(observed, now + e) ELSE observed
                /\ res' = [status |-> 200, body |-> "verdict",
                           allowed |-> ~isBot(totalScore),
                           verdict |-> Verdict(totalScore),
                           score |-> totalScore,
                           signals |-> signals,
                           redirectUrl |-> FinalRedirectUrl(isBot(totalScore), REDIRECT_URL,
                                                            body.urlParams, randomSubdomain)]
        /\ swept' = FALSE
        /\ UNCHANGED REDIRECT_URL

-----------------------------------------------------------------------------
(* Proof of work: POST /api/challenge and POST /api/verify-pow *)

difficulty == 4

CHALLENGE_1 ==
    <<"9", "f", "8", "6", "d", "0", "8", "1", "8", "8", "4", "c", "7", "d", "6", "5", "9", "a", "2", "f", "e", "a", "a", "0", "c", "5", "5", "a", "d", "0", "1", "5">>
CHALLENGE_2 ==
    <<"3", "c", "6", "e", "0", "b", "8", "a", "9", "c", "1", "5", "2", "2", "4", "a", "8", "2", "2", "8", "b", "9", "a", "9", "8", "c", "a", "1", "5", "3", "1", "d">>

\* crypto.createHash('sha256').update(text).digest('hex'): the leading 8 hex digits
\* of the digest of each text the model submits
Sha256Hex(text) ==
    CASE text = CHALLENGE_1 \o <<"0">> -> <<"5", "6", "2", "4", "9", "7", "5", "1">>
      [] text = CHALLENGE_1 \o <<"1", "1", "2">> -> <<"0", "0", "0", "8", "1", "6", "9", "a">>
      [] text = CHALLENGE_1 \o <<"6", "9", "2", "6">> -> <<"0", "0", "0", "0", "7", "e", "d", "0">>
      [] text = CHALLENGE_1 \o <<"4", "9", "3", "4", "7">> -> <<"a", "1", "9", "0", "5", "5", "8", "6">>
      [] text = CHALLENGE_1 \o <<"2", "5", "5", "8", "1", "9">> -> <<"0", "0", "0", "0", "0", "6", "4", "d">>
      [] text = CHALLENGE_2 \o <<"0">> -> <<"4", "5", "a", "6", "b", "e", "d", "5">>
      [] text = CHALLENGE_2 \o <<"1", "1", "2">> -> <<"b", "f", "5", "0", "4", "3", "3", "8">>
      [] text = CHALLENGE_2 \o <<"6", "9", "2", "6">> -> <<"a", "b", "4", "2", "d", "0", "6", "8">>
      [] text = CHALLENGE_2 \o <<"4", "9", "3", "4", "7">> -> <<"0", "0", "0", "0", "3", "a", "3", "d">>
      [] text = CHALLENGE_2 \o <<"2", "5", "5", "8", "1", "9">> -> <<"6", "d", "9", "5", "3", "b", "0", "7">>

\* String(n) for n >= 0
RECURSIVE ToDigits(_)
ToDigits(n) ==
    LET digit == <<"0", "1", "2", "3", "4", "5", "6", "7", "8", "9">>
    IN  IF n < 10 THEN <<digit[n + 1]>>
        ELSE Append(ToDigits(n \div 10), digit[(n % 10) + 1])

\* challenge + nonce
Concat(challenge, nonce) ==
    challenge.val \o (IF nonce.type = "number" THEN ToDigits(nonce.val) ELSE nonce.val)

\* !challenge || nonce === undefined || !timestamp
MissingPowData(body) ==
    \/ ~Truthy(body.challenge)
    \/ body.nonce.type = "undefined"
    \/ ~Truthy(body.timestamp)

\* a freshness test one millisecond strict
ExpiredAt30000(t, timestamp) == t - timestamp >= 30000

\* now - timestamp > 30000
Expired(t, timestamp) == t - timestamp > 30000

\* hash.startsWith('0000')
ValidHash(hash) == StartsWith(hash, <<"0", "0", "0", "0">>)

Challenge(r, sweepMW, token) ==
    LET bd == BotDetection(r, rateLimitStore, now, sweepMW)
    IN  /\ r.path = PATH_CHALLENGE
        /\ ~bd.blocked
        /\ rateLimitStore' = bd.store
        /\ requestLog' = Logged(requestLog, r, now)
        /\ req' = Scoped(r, bd)
        /\ res' = [status |-> 200, body |-> "challenge", challenge |-> token,
                   difficulty |-> difficulty, timestamp |-> now]
        /\ swept' = FALSE
        /\ UNCHANGED <<now, fingerprintStore, REDIRECT_URL, firstObserver>>
        /\ UNCHANGED clientVars

VerifyPow(r, sweepMW) ==
    LET bd == BotDetection(r, rateLimitStore, now, sweepMW)
        body == r.body.val
    IN  /\ r.path = PATH_VERIFY_POW
        /\ ~bd.blocked
        /\ rateLimitStore' = bd.store
        /\ requestLog' = Logged(requestLog, r, now)
        /\ req' = Scoped(r, bd)
        /\ res' = IF MissingPowData(body) THEN MissingData
                  ELSE IF Expired(now, body.timestamp.val)
                    THEN [status |-> 200, body |-> "pow", valid |-> FALSE,
                          reason |-> "Challenge expired"]
                  ELSE [status |-> 200, body |-> "pow",
                        valid |-> ValidHash(Sha256Hex(Concat(body.challenge, body.nonce)))]
        /\ swept' = FALSE
        /\ UNCHANGED <<now, fingerprintStore, REDIRECT_URL, firstObserver>>
        /\ UNCHANGED clientVars

-----------------------------------------------------------------------------
(* Start-up *)

StartTime == 100000

NoRequest ==
    [path |-> <<>>, userAgent |-> JSUndefined, xForwardedFor |-> JSUndefined,
     xRealIp |-> JSUndefined, ip |-> <<>>, body |-> JSUndefined,
     botScore |-> JSUndefined, botSignals |-> JSUndefined]

\* no page has been loaded yet
NoBrowser == [name |-> "none"]
NoDetector == [score |-> 0]

\* the process exits at start-up unless REDIRECT_URL is set
Init ==
    /\ now = StartTime
    /\ rateLimitStore = EmptyMap
    /\ fingerprintStore = EmptyMap
    /\ REDIRECT_URL \in {TARGET_URL, TARGET_BAD}
    /\ req = NoRequest
    /\ res = [status |-> 0, body |-> "none"]
    /\ requestLog = EmptyMap
    /\ firstObserver = EmptyMap
    /\ swept = FALSE
    /\ browser = NoBrowser
    /\ detector = NoDetector
    /\ pc = "load"
    /\ permissionsQuery = "none"
    /\ result = JSUndefined

-----------------------------------------------------------------------------
(* Inputs *)

IP_A == <<"1", ".", "1">>
IP_B == <<"2", ".", "2">>
\* X-Forwarded-For: "2.2, 1.1" (client 2.2 behind proxy 1.1)
XFF_B_VIA_A == <<"2", ".", "2", ",", " ", "1", ".", "1">>

Get(path, userAgent, xff, ip) ==
    [path |-> path, userAgent |-> userAgent, xForwardedFor |-> xff,
     xRealIp |-> JSUndefined, ip |-> ip, body |-> JSUndefined]

Post(path, userAgent, xff, ip, body) ==
    [path |-> path, userAgent |-> userAgent, xForwardedFor |-> xff,
     xRealIp |-> JSUndefined, ip |-> ip, body |-> Obj(body)]

\* two client fingerprints and the behaviors object the detector always sends
FP_1 == Obj(<< <<"canvas", "c1">>, <<"webgl", "g1">> >>)
FP_2 == Obj(<< <<"canvas", "c2">>, <<"webgl", "g1">> >>)
BEHAVIORS == Obj(<< <<"mouseMove", "false">>, <<"click", "false">> >>)

\* 12 hex characters of crypto.randomBytes(6)
LABEL_1 == "4f1d2c3b5a69"
LABEL_2 == "a0b1c2d3e4f5"

Checks(cdp, webdriver, automationArtifacts, headlessSignals) ==
    Obj([cdp |-> cdp, webdriver |-> webdriver,
         automationArtifacts |-> automationArtifacts, headlessSignals |-> headlessSignals])

\* urlParams of a visit to /promo: {path: '/promo', query: null}
URL_PARAMS == Obj([path |-> Str(PATH_PAGE), query |-> JSNull])

PowBody(challenge, nonce, timestamp) ==
    [challenge |-> challenge, nonce |-> nonce, timestamp |-> timestamp]

VerifyBody(fingerprint, behaviors, clientScore, checks, urlParams) ==
    [fingerprint |-> fingerprint, behaviors |-> behaviors, clientScore |-> clientScore,
     checks |-> checks, urlParams |-> urlParams]

-----------------------------------------------------------------------------
(* The rate limiter under load: many page requests of few identities *)

MaxRateRequests == 12
MaxOtherRequests == 2

\* one busy identity (1.1, directly and through a proxy) and one quiet one (2.2)
RateBudget(r) ==
    IF SkipBotDetection(r.path) THEN TRUE
    ELSE LET ip == getClientIP(r)
             n == IF Has(requestLog, ip) THEN Len(requestLog[ip]) ELSE 0
         IN  n < (IF ip = IP_A THEN MaxRateRequests ELSE MaxOtherRequests)

RateRequests ==
    { Get(PATH_ROOT, Str(UA_browser), JSUndefined, IP_A),
      Get(PATH_PAGE, Str(UA_curl), Str(XFF_B_VIA_A), IP_A),
      Get(PATH_HEALTH, Str(UA_browser), JSUndefined, IP_A) }

RatePageRequest ==
    \E r \in RateRequests, sweep \in BOOLEAN :
        /\ RateBudget(r)
        /\ PageRequest(r, sweep)

RateTick ==
    \E d \in {rateLimitWindow - 1, rateLimitWindow} :
        Tick(d, StartTime + 2 * rateLimitWindow)

NextRate == RatePageRequest \/ RateTick

SpecRate == Init /\ [][NextRate]_vars

-----------------------------------------------------------------------------
(* The classifier on every kind of user-agent: one identity, two pages *)

MaxClassifyRequests == 12

ClassifyRequests ==
    { Get(path, ua, JSUndefined, IP_A) :
        path \in {PATH_ROOT, PATH_PAGE},
        ua \in {JSUndefined} \cup {Str(userAgent) : userAgent \in UserAgents} }
    \cup
    { Get(PATH_SCRIPT, Str(UA_curl), JSUndefined, IP_A) }

ClassifyPageRequest ==
    \E r \in ClassifyRequests, sweep \in BOOLEAN :
        /\ (IF Has(requestLog, IP_A) THEN Len(requestLog[IP_A]) ELSE 0)
              < MaxClassifyRequests
        /\ PageRequest(r, sweep)

ClassifyTick == Tick(rateLimitWindow, StartTime + rateLimitWindow)

NextClassify == ClassifyPageRequest \/ ClassifyTick

SpecClassify == Init /\ [][NextClassify]_vars

-----------------------------------------------------------------------------
(* The fingerprint ledger over more than a day: few fingerprints, two IPs *)

MaxCount == 3
MaxDrift == 1

LedgerRequests ==
    { Post(PATH_VERIFY_HUMAN, Str(UA_browser), JSUndefined, ip,
           VerifyBody(fp, BEHAVIORS, Num(0), JSUndefined, JSUndefined)) :
        fp \in {FP_1, FP_2}, ip \in {IP_A, IP_B} }

\* the count of a record stays below MaxCount
LedgerBudget(r) ==
    LET fpHash == fpHashOf(r.body.val.fingerprint)
    IN  Has(fingerprintStore, fpHash) => fingerprintStore[fpHash].count < MaxCount

LedgerVerifyHuman ==
    \E r \in LedgerRequests, sweep \in BOOLEAN, e \in {0, 1} :
        /\ LedgerBudget(r)
        /\ VerifyHuman(r, FALSE, LABEL_1, sweep, e, StartTime + maxAge + MaxDrift)
        /\ UNCHANGED clientVars

LedgerTick == Tick(maxAge, StartTime + maxAge + MaxDrift)

NextLedger == LedgerVerifyHuman \/ LedgerTick

SpecLedger == Init /\ [][NextLedger]_vars

-----------------------------------------------------------------------------
(* The proof-of-work exchange around the 30 s freshness limit *)

PowRequests ==
    { Post(PATH_VERIFY_POW, Str(UA_browser), JSUndefined, IP_A,
           PowBody(challenge, nonce, timestamp)) :
        challenge \in {JSUndefined, Str(<<>>), Str(CHALLENGE_1), Str(CHALLENGE_2)},
        nonce \in {JSUndefined, Num(0), Num(112), Num(6926), Num(49347), Num(255819),
                   Str(<<"6", "9", "2", "6">>)},
        timestamp \in {JSUndefined, Num(0), Num(StartTime), Num(StartTime + 30000),
                       Num(StartTime + 90000)} }

PowChallenge ==
    \E token \in {CHALLENGE_1, CHALLENGE_2} :
        Challenge(Post(PATH_CHALLENGE, Str(UA_browser), JSUndefined, IP_A, <<>>),
                  FALSE, token)

PowVerify == \E r \in PowRequests : VerifyPow(r, FALSE)

PowTick == \E d \in {30000, 30001} : Tick(d, StartTime + 60001)

NextPow == PowChallenge \/ PowVerify \/ PowTick

SpecPow == Init /\ [][NextPow]_vars

-----------------------------------------------------------------------------
(* The whole server on one visit's worth of traffic: page requests, the    *)
(* verification of a detector report, proof of work                        *)

MaxPageRequests == 2

ClientScores ==
    {JSUndefined, Num(-140), Num(0), Num(158), Num(159), Num(160), Num(198), Num(200)}

ClientChecks ==
    { JSUndefined,
      Checks(FALSE, FALSE, <<>>, <<"no-plugins">>),
      Checks(TRUE, FALSE, <<>>, <<>>),
      Checks(FALSE, TRUE, <<>>, <<>>),
      Checks(FALSE, FALSE, <<"selenium">>, <<"no-plugins", "no-languages">>) }

\* detector reports of every score and check, a report sent with a library's
\* user-agent from a second address, and reports that lack a required field
VerifyRequests ==
    { Post(PATH_VERIFY_HUMAN, Str(UA_browser), JSUndefined, IP_A,
           VerifyBody(FP_1, BEHAVIORS, clientScore, checks, JSUndefined)) :
        clientScore \in ClientScores, checks \in ClientChecks }
    \cup
    { Post(PATH_VERIFY_HUMAN, Str(UA_curl), JSUndefined, IP_B,
           VerifyBody(fb[1], fb[2], Num(0), checks, URL_PARAMS)) :
        fb \in {<<FP_1, BEHAVIORS>>, <<JSUndefined, BEHAVIORS>>, <<FP_1, JSUndefined>>},
        checks \in {JSUndefined, Checks(FALSE, TRUE, <<>>, <<>>)} }

PageRequests ==
    { Get(PATH_ROOT, ua, JSUndefined, IP_A) : ua \in {JSUndefined, Str(UA_browser), Str(UA_curl)} }

MainPageRequest ==
    \E r \in PageRequests, sweep \in BOOLEAN :
        /\ (IF Has(requestLog, IP_A) THEN Len(requestLog[IP_A]) ELSE 0) < MaxPageRequests
        /\ PageRequest(r, sweep)

MainVerifyHuman ==
    \E r \in VerifyRequests, label \in {LABEL_1, LABEL_2}, sweep \in BOOLEAN :
        /\ (IF MissingRequiredData(r.body.val) THEN TRUE ELSE LedgerBudget(r))
        /\ VerifyHuman(r, sweep, label, sweep, 0, StartTime)
        /\ UNCHANGED clientVars

MainChallenge ==
    \E token \in {CHALLENGE_1, CHALLENGE_2}, sweepMW \in BOOLEAN :
        Challenge(Post(PATH_CHALLENGE, Str(UA_curl), JSUndefined, IP_B, <<>>),
                  sweepMW, token)

MainVerifyPow ==
    \E r \in { Post(PATH_VERIFY_POW, Str(UA_curl), JSUndefined, IP_B,
                    PowBody(challenge, nonce, Num(StartTime))) :
                  challenge \in {JSUndefined, Str(CHALLENGE_1)},
                  nonce \in {JSUndefined, Num(6926)} },
       sweepMW \in BOOLEAN :
        VerifyPow(r, sweepMW)

Next == MainPageRequest \/ MainVerifyHuman \/ MainChallenge \/ MainVerifyPow

Spec == Init /\ [][Next]_vars

-----------------------------------------------------------------------------
(* The client detector (au0cki7gbr.js) and the page script that runs it *)

JSBool(b) == [type |-> "boolean", val |-> b]

\* a regex literal without flags: the text occurs in s, case-sensitively
Includes(lit, s) ==
    \E i \in 1..(Len(s) - Len(lit) + 1) : SubSeq(s, i, i + Len(lit) - 1) = lit

RE_HeadlessChrome == <<"H", "e", "a", "d", "l", "e", "s", "s", "C", "h", "r", "o", "m", "e">>
RE_Chrome == <<"C", "h", "r", "o", "m", "e">>
RE_Safari == <<"S", "a", "f", "a", "r", "i">>
RE_Win == <<"W", "i", "n">>
RE_Mac == <<"M", "a", "c">>
RE_Linux == <<"L", "i", "n", "u", "x">>

\* new AdvancedBotDetector(config): the defaults, then ...config
AdvancedBotDetector(config) ==
    [config |-> [k \in {"cdpWeight", "behaviorWeight", "fingerprintWeight", "timingWeight",
                        "navigatorWeight", "threshold", "behaviorTimeout"} |->
                    IF k \in DOMAIN config THEN config[k]
                    ELSE CASE k = "cdpWeight" -> 50
                           [] k = "behaviorWeight" -> 40
                           [] k = "fingerprintWeight" -> 30
                           [] k = "timingWeight" -> 25
                           [] k = "navigatorWeight" -> 20
                           [] k = "threshold" -> 70
                           [] k = "behaviorTimeout" -> 3000],
     score |-> 0,
     checks |-> EmptyMap,
     behaviors |-> Obj(<< <<"mouseMove", "false">>, <<"click", "false">>,
                          <<"scroll", "false">>, <<"keyboard", "false">>,
                          <<"touch", "false">> >>),
     fingerprint |-> JSNull]

\* the page's new AdvancedBotDetector({behaviorTimeout:3000,threshold:80})
PageConfig == [behaviorTimeout |-> 3000, threshold |-> 80]

\* this.checks[name] = value; this.score += points
Checked(d, name, value, points) ==
    [d EXCEPT !.checks = MapSet(d.checks, name, value), !.score = d.score + points]

Min(a, b) == IF a < b THEN a ELSE b

\* a WebDriver check that records the flag and scores nothing
detectWebDriverUnscored(b, d) ==
    Checked(d, "webdriver", b.webdriver = JSBool(TRUE), 0)

\* console.debug(err) reads err.stack when a DevTools-protocol client is attached
detectCDP(b, d) ==
    Checked(d, "cdp", b.cdp, IF b.cdp THEN d.config.cdpWeight ELSE 0)

detectWebDriver(b, d) ==
    Checked(d, "webdriver", b.webdriver = JSBool(TRUE),
            IF b.webdriver = JSBool(TRUE) THEN 45 ELSE 0)

\* navigator.plugins.length of a navigator without plugins property is a TypeError
HeadlessThrows(b) == b.plugins = JSUndefined

HeadlessSignals(b) ==
    (IF Test(<<RE_HeadlessChrome>>, b.userAgent) THEN <<"headless-ua">> ELSE <<>>)
    \o (IF ~b.chrome /\ Test(<<RE_Chrome>>, b.userAgent)
        THEN <<"missing-chrome-object">> ELSE <<>>)
    \o (IF b.plugins = Num(0) THEN <<"no-plugins">> ELSE <<>>)
    \o (IF b.mimeTypes = Num(0) THEN <<"no-mimetypes">> ELSE <<>>)
    \o (IF b.languages = JSUndefined \/ b.languages = Obj(<<>>)
        THEN <<"no-languages">> ELSE <<>>)
    \o (IF b.phantom THEN <<"phantomjs">> ELSE <<>>)

\* the synchronous part of detectHeadless, when it does not throw
detectHeadless(b, d) ==
    LET signals == HeadlessSignals(b)
    IN  Checked(d, "headlessSignals", signals,
                IF Len(signals) > 0 THEN Min(Len(signals) * 15, 45) ELSE 0)

\* 'permissions' in navigator
HasPermissions(b) == b.permissions # JSUndefined

\* the continuation of checkPermissionsAsync once navigator.permissions.query settled
checkPermissionsAsync(b, d) ==
    IF /\ b.permissions.type = "string"
       /\ b.notification # JSUndefined
       /\ b.permissions # b.notification
    THEN Checked(d, "permissionInconsistency", TRUE, 20)
    ELSE d

NavigatorIssues(b) ==
    LET uaPlatform == IF Includes(RE_Win, b.userAgent) THEN "Win32"
                      ELSE IF Includes(RE_Mac, b.userAgent) THEN "MacIntel"
                      ELSE IF Includes(RE_Linux, b.userAgent) THEN "Linux x86_64"
                      ELSE ""
        expectedVendor == IF Includes(RE_Chrome, b.userAgent) THEN "Google Inc."
                          ELSE IF Includes(RE_Safari, b.userAgent)
                                  /\ ~Includes(RE_Chrome, b.userAgent)
                            THEN "Apple Computer, Inc."
                          ELSE ""
    IN  (IF uaPlatform # "" /\ b.platform # uaPlatform
         THEN <<"platform-mismatch">> ELSE <<>>)
        \o (IF b.language # "" /\ b.languages # JSUndefined
               /\ ~Contains(b.languages.val, b.language)
            THEN <<"language-mismatch">> ELSE <<>>)
        \o (IF b.hardwareConcurrency > 32 \/ b.hardwareConcurrency = 0
            THEN <<"suspicious-cpu">> ELSE <<>>)
        \o (IF b.deviceMemory # JSUndefined /\ b.deviceMemory.val # 0
               /\ (b.deviceMemory.val > 32 * 4 \/ b.deviceMemory.val < 1)
            THEN <<"suspicious-memory">> ELSE <<>>)
        \o (IF expectedVendor # "" /\ b.vendor # expectedVendor
            THEN <<"vendor-mismatch">> ELSE <<>>)

checkNavigatorInconsistencies(b, d) ==
    LET issues == NavigatorIssues(b)
    IN  Checked(d, "navigatorIssues", issues,
                IF Len(issues) > 0 THEN Min(Len(issues) * 10, d.config.navigatorWeight)
                ELSE 0)

Artifacts(b) ==
    (IF b.selenium THEN <<"selenium">> ELSE <<>>)
    \o (IF b.cdc THEN <<"chrome-automation">> ELSE <<>>)
    \o (IF b.webdriver = JSUndefined /\ Includes(RE_HeadlessChrome, b.userAgent)
        THEN <<"puppeteer">> ELSE <<>>)
    \o (IF b.playwright THEN <<"playwright">> ELSE <<>>)
    \o (IF b.nightmare THEN <<"nightmare">> ELSE <<>>)

checkAutomationArtifacts(b, d) ==
    LET artifacts == Artifacts(b)
    IN  Checked(d, "automationArtifacts", artifacts,
                IF Len(artifacts) > 0 THEN 50 ELSE 0)

\* simpleHash of the two data URLs a canvas of the model renders
DATA_URL_1 == "data:image/png;base64,iVBORw0KGgoAAAANSUhEUgAAAMgAAAAy"
DATA_URL_2 == "data:image/png;base64,iVBORw0KGgoAAAANSUhEUgAAAMgAAAAz"

simpleHash(str) ==
    CASE str = DATA_URL_1 -> "adzqbz"
      [] str = DATA_URL_2 -> "adzqc0"

\* null when there is no 2d context or toDataURL throws (caught), else the hash
getCanvasFingerprint(b) ==
    IF ~b.context2d \/ b.dataURL = JSUndefined THEN "null"
    ELSE simpleHash(b.dataURL.val)

\* ctx.font = ... on the null context of getFontFingerprint is a TypeError
FontsThrow(b) == ~b.context2d

\* the part of generateFingerprint after await this.getCanvasFingerprint()
generateFingerprint(b, d) ==
    LET canvas == getCanvasFingerprint(b)
        fingerprint == Obj(<< <<"canvas", canvas>>, <<"webgl", b.webgl>>,
                              <<"audio", b.audio>>, <<"fonts", b.fonts>>,
                              <<"screen", b.screen>>, <<"browser", b.name>> >>)
    IN  [d EXCEPT !.fingerprint = fingerprint,
                  !.score = d.score + (IF canvas = "null" \/ b.webgl = "null"
                                       THEN 15 ELSE 0)]

calculateScore(d) == Checked(d, "behaviorScore", 0, 0)

\* the object detect() returns; its checks property is this.checks itself
DetectResult(d) ==
    [isBot |-> d.score >= d.config.threshold, score |-> d.score,
     behaviors |-> d.behaviors, fingerprint |-> d.fingerprint]

-----------------------------------------------------------------------------
(* The page script: d.detect(), then fetch('/api/verify-human') *)

serverVars == <<now, rateLimitStore, fingerprintStore, REDIRECT_URL, req, res,
                requestLog, firstObserver, swept>>

\* const d = new AdvancedBotDetector({...}); d.detect() is called
LoadPage(b) ==
    /\ pc = "load"
    /\ browser' = b
    /\ detector' = AdvancedBotDetector(PageConfig)
    /\ pc' = "detectCDP"
    /\ UNCHANGED <<permissionsQuery, result>>
    /\ UNCHANGED serverVars

DetectCDP ==
    /\ pc = "detectCDP"
    /\ detector' = detectCDP(browser, detector)
    /\ pc' = "detectWebDriver"
    /\ UNCHANGED <<browser, permissionsQuery, result>>
    /\ UNCHANGED serverVars

DetectWebDriver ==
    /\ pc = "detectWebDriver"
    /\ detector' = detectWebDriver(browser, detector)
    /\ pc' = "detectHeadless"
    /\ UNCHANGED <<browser, permissionsQuery, result>>
    /\ UNCHANGED serverVars

\* a throw inside a check leaves detect() by rejecting its promise
DetectHeadless ==
    /\ pc = "detectHeadless"
    /\ IF HeadlessThrows(browser)
       THEN /\ pc' = "rejected"
            /\ UNCHANGED <<detector, permissionsQuery>>
       ELSE /\ detector' = detectHeadless(browser, detector)
            /\ permissionsQuery' = IF HasPermissions(browser) THEN "pending"
                                   ELSE permissionsQuery
            /\ pc' = "checkNavigatorInconsistencies"
    /\ UNCHANGED <<browser, result>>
    /\ UNCHANGED serverVars

CheckNavigatorInconsistencies ==
    /\ pc = "checkNavigatorInconsistencies"
    /\ detector' = checkNavigatorInconsistencies(browser, detector)
    /\ pc' = "checkAutomationArtifacts"
    /\ UNCHANGED <<browser, permissionsQuery, result>>
    /\ UNCHANGED serverVars

\* the last immediate check, then generateFingerprint up to its await
CheckAutomationArtifacts ==
    /\ pc = "checkAutomationArtifacts"
    /\ detector' = checkAutomationArtifacts(browser, detector)
    /\ pc' = "awaitCanvas"
    /\ UNCHANGED <<browser, permissionsQuery, result>>
    /\ UNCHANGED serverVars

\* generateFingerprint resumes after await this.getCanvasFingerprint()
GenerateFingerprint ==
    /\ pc = "awaitCanvas"
    /\ IF FontsThrow(browser)
       THEN /\ pc' = "rejected"
            /\ UNCHANGED detector
       ELSE /\ detector' = generateFingerprint(browser, detector)
            /\ pc' = "awaitFingerprint"
    /\ UNCHANGED <<browser, permissionsQuery, result>>
    /\ UNCHANGED serverVars

\* detect() resumes after await this.generateFingerprint(), and returns
DetectReturn ==
    /\ pc = "awaitFingerprint"
    /\ detector' = calculateScore(detector)
    /\ result' = DetectResult(calculateScore(detector))
    /\ pc' = "returned"
    /\ UNCHANGED <<browser, permissionsQuery>>
    /\ UNCHANGED serverVars

\* the places where the script has given control back to the event loop
AwaitPoints == {"awaitCanvas", "awaitFingerprint", "returned", "submitted",
                "navigated", "denied", "rejected"}

\* navigator.permissions.query settles and checkPermissionsAsync resumes
PermissionsSettle ==
    /\ permissionsQuery = "pending"
    /\ pc \in AwaitPoints
    /\ permissionsQuery' = "settled"
    /\ detector' = checkPermissionsAsync(browser, detector)
    /\ UNCHANGED <<browser, pc, result>>
    /\ UNCHANGED serverVars

\* urlParams of a visit to /: {path: null, query: null}
PageUrlParams == Obj([path |-> JSNull, query |-> JSNull])

\* the body the page script sends: r.checks is the detector's checks object
Submission ==
    VerifyBody(result.fingerprint, result.behaviors, Num(result.score),
               Obj(detector.checks), PageUrlParams)

\* the page script resumes after await d.detect(), posts r and the server answers
Submit(sweep) ==
    /\ pc = "returned"
    /\ VerifyHuman(Post(PATH_VERIFY_HUMAN, Str(browser.userAgent), JSUndefined, IP_A,
                        Submission),
                   FALSE, LABEL_1, sweep, 0, StartTime)
    /\ pc' = "submitted"
    /\ UNCHANGED <<browser, detector, permissionsQuery, result>>

\* if (s.allowed && s.redirectUrl) navigate, else show Access Denied
Act ==
    /\ pc = "submitted"
    /\ pc' = IF res.allowed /\ Truthy(res.redirectUrl) THEN "navigated" ELSE "denied"
    /\ UNCHANGED <<browser, detector, permissionsQuery, result>>
    /\ UNCHANGED serverVars

-----------------------------------------------------------------------------
(* One visit by each kind of browser *)

UA_chrome_win == <<"W", "i", "n", "d", "o", "w", "s", " ", "C", "h", "r", "o", "m", "e", "/", "1", "2", "0", " ", "S", "a", "f", "a", "r", "i", "/", "5", "3", "7">>
UA_headless_linux == <<"L", "i", "n", "u", "x", " ", "H", "e", "a", "d", "l", "e", "s", "s", "C", "h", "r", "o", "m", "e", "/", "1", "2", "0", " ", "S", "a", "f", "a", "r", "i", "/", "5", "3", "7">>
UA_safari_mac == <<"M", "a", "c", "i", "n", "t", "o", "s", "h", " ", "S", "a", "f", "a", "r", "i", "/", "6", "0", "5">>

\* Chrome on Windows with nothing to detect
Human ==
    [name |-> "chrome", userAgent |-> UA_chrome_win, cdp |-> FALSE,
     webdriver |-> JSBool(FALSE), chrome |-> TRUE, plugins |-> Num(5),
     mimeTypes |-> Num(2), languages |-> Obj(<<"en-US", "en">>), language |-> "en-US",
     phantom |-> FALSE, permissions |-> JSUndefined, notification |-> JSUndefined,
     platform |-> "Win32", hardwareConcurrency |-> 8, deviceMemory |-> Num(32),
     vendor |-> "Google Inc.", selenium |-> FALSE, cdc |-> FALSE, playwright |-> FALSE,
     nightmare |-> FALSE, context2d |-> TRUE, dataURL |-> Str(DATA_URL_1),
     webgl |-> "angle", audio |-> "48000", fonts |-> "Arial,Verdana",
     screen |-> "1920x1080"]

Browsers ==
    { Human,
      [Human EXCEPT !.name = "safari", !.userAgent = UA_safari_mac,
                    !.platform = "MacIntel", !.vendor = "Apple Computer, Inc.",
                    !.chrome = FALSE, !.deviceMemory = JSUndefined,
                    !.dataURL = Str(DATA_URL_2)],
      [Human EXCEPT !.name = "webdriver", !.webdriver = JSBool(TRUE)],
      [Human EXCEPT !.name = "cdp", !.cdp = TRUE],
      [Human EXCEPT !.name = "selenium", !.selenium = TRUE],
      [Human EXCEPT !.name = "cdc", !.cdc = TRUE],
      [Human EXCEPT !.name = "playwright", !.playwright = TRUE],
      [Human EXCEPT !.name = "nightmare", !.nightmare = TRUE],
      [Human EXCEPT !.name = "headless", !.userAgent = UA_headless_linux,
                    !.webdriver = JSUndefined, !.chrome = FALSE, !.plugins = Num(0),
                    !.mimeTypes = Num(0), !.languages = Obj(<<>>),
                    !.platform = "Linux x86_64", !.webgl = "null"],
      [Human EXCEPT !.name = "tainted-canvas", !.dataURL = JSUndefined],
      [Human EXCEPT !.name = "no-plugins", !.plugins = JSUndefined],
      [Human EXCEPT !.name = "no-2d-context", !.context2d = FALSE] }

\* navigator.permissions absent; a query in line with Notification.permission;
\* Chrome's 'prompt' against Notification.permission 'default'; a query that rejects
Permissions ==
    { <<JSUndefined, JSUndefined>>, <<Str("granted"), Str("granted")>>,
      <<Str("prompt"), Str("default")>>, <<JSNull, Str("default")>> }

ClientLoadPage ==
    \E b \in Browsers, p \in Permissions :
        LoadPage([b EXCEPT !.permissions = p[1], !.notification = p[2]])

ClientSubmit == \E sweep \in BOOLEAN : Submit(sweep)

NextClient ==
    \/ ClientLoadPage
    \/ DetectCDP
    \/ DetectWebDriver
    \/ DetectHeadless
    \/ CheckNavigatorInconsistencies
    \/ CheckAutomationArtifacts
    \/ GenerateFingerprint
    \/ DetectReturn
    \/ PermissionsSettle
    \/ ClientSubmit
    \/ Act

SpecClient == Init /\ [][NextClient]_vars

-----------------------------------------------------------------------------
(* Requests and responses the properties speak about *)

Classified == req.botScore.type = "number"

Signals == IF req.botSignals.type = "object" THEN req.botSignals.val ELSE <<>>

\* the requests of a history made within the trailing 60 s of time t
Trailing(times, t) == SelectSeq(times, LAMBDA x : x > t - 60000)

\* the reply of /api/verify-human to a request that passed input validation
Verified == res.body = "verdict"

\* the number of leading '0' digits of a hex digest
LeadingZeros(hex) ==
    IF \E i \in 1..Len(hex) : hex[i] # "0"
    THEN (CHOOSE i \in 1..Len(hex) : hex[i] # "0" /\ \A k \in 1..(i - 1) : hex[k] = "0") - 1
    ELSE Len(hex)

\* a request of the two validating endpoints that lacks a required field
Malformed(r) ==
    IF r.path = PATH_VERIFY_HUMAN
      THEN r.body.val.fingerprint = JSUndefined \/ r.body.val.behaviors = JSUndefined
    ELSE IF r.path = PATH_VERIFY_POW
      THEN \/ r.body.val.challenge = JSUndefined
           \/ r.body.val.nonce = JSUndefined
           \/ r.body.val.timestamp = JSUndefined
    ELSE FALSE

-----------------------------------------------------------------------------
(* C1: the final score of POST /api/verify-human starts from the score    *)
(* the classifier gives the request (60 for a catalog user-agent, 50 for a *)
(* missing or short one) and its signals start with the classifier's.     *)
C1_ServerScoreReachesAggregator ==
    Verified =>
        LET userAgent == UserAgentOf(req)
            body == req.body.val
            catalog == isBotUA(userAgent)
            missing == Len(userAgent) < 5
            expected == (IF catalog THEN <<"bot-ua">> ELSE <<>>)
                        \o (IF missing THEN <<"missing-ua">> ELSE <<>>)
        IN  /\ res.score >= 2 * ((IF catalog THEN 60 ELSE 0) + (IF missing THEN 50 ELSE 0))
                              + ClientShare(body) + ChecksScore(body.checks)
            /\ Len(res.signals) >= Len(expected)
            /\ SubSeq(res.signals, 1, Len(expected)) = expected

-----------------------------------------------------------------------------
(* C2: whatever clientScore is submitted, checks.webdriver = true gives a   *)
(* final score >= 70 and a verdict of at least 'suspicious', and            *)
(* checks.cdp = true gives a final score >= 60.                             *)
C2_GroundTruthNotSuppressed ==
    (Verified /\ req.body.val.checks.type = "object") =>
        /\ req.body.val.checks.val.webdriver =>
              /\ res.score >= 2 * 70
              /\ res.verdict \in {"suspicious", "likely-bot", "bot"}
        /\ req.body.val.checks.val.cdp => res.score >= 2 * 60

-----------------------------------------------------------------------------
(* C3: the verdict is the ladder over the final score (>= 100 bot,         *)
(* >= 80 likely-bot, >= 50 suspicious, else human) and allowed is true     *)
(* exactly when the final score is below 80.                               *)
C3_VerdictLadder ==
    Verified =>
        /\ res.verdict = (CASE res.score >= 200 -> "bot"
                            [] res.score >= 160 /\ res.score < 200 -> "likely-bot"
                            [] res.score >= 100 /\ res.score < 160 -> "suspicious"
                            [] res.score < 100 -> "human")
        /\ res.allowed <=> res.score < 160

\* a final score of exactly 80: likely-bot and not allowed
C3_Witness ==
    /\ Verified
    /\ res.score = 160
    /\ res.verdict = "likely-bot"
    /\ ~res.allowed

-----------------------------------------------------------------------------
(* C4: every reply to a validated request has the one shape                *)
(* {allowed, verdict, score, signals, redirectUrl}, and its redirectUrl is *)
(* non-null exactly when allowed is true.                                  *)
C4_TargetOnlyWhenAllowed ==
    (req.path = PATH_VERIFY_HUMAN /\ res.status = 200) =>
        /\ DOMAIN res = {"status", "body", "allowed", "verdict", "score", "signals",
                         "redirectUrl"}
        /\ res.redirectUrl # JSNull <=> res.allowed
        /\ res.allowed => res.redirectUrl.type = "url"

\* a denied visit to /promo: the same shape, a null target
C4_Witness ==
    /\ Verified
    /\ ~res.allowed
    /\ res.redirectUrl = JSNull
    /\ req.body.val.urlParams = URL_PARAMS

-----------------------------------------------------------------------------
(* C9: proof of work.  A request whose three fields are present (challenge *)
(* and timestamp not empty or 0) gets valid = true exactly when at most    *)
(* 30000 ms passed since its timestamp and the digest of challenge + nonce *)
(* has at least 4 leading zero digits, the difficulty /api/challenge       *)
(* issues; past 30000 ms it gets 'Challenge expired' whatever the nonce.   *)
C9_ProofOfWork ==
    /\ [](res.body = "challenge" => res.difficulty = 4 /\ res.timestamp <= now)
    /\ [][(now' = now /\ req'.path = PATH_VERIFY_POW
            /\ Truthy(req'.body.val.challenge)
            /\ req'.body.val.nonce # JSUndefined
            /\ Truthy(req'.body.val.timestamp)) =>
             LET body == req'.body.val
                 age == now - body.timestamp.val
                 nonce == IF body.nonce.type = "number" THEN ToDigits(body.nonce.val)
                          ELSE body.nonce.val
                 zeros == LeadingZeros(Sha256Hex(body.challenge.val \o nonce))
             IN  /\ res'.status = 200
                 /\ res'.valid <=> (age <= 30000 /\ zeros >= 4)
                 /\ age > 30000 => res' = [status |-> 200, body |-> "pow", valid |-> FALSE,
                                            reason |-> "Challenge expired"]
       ]_vars

\* a solved challenge verified exactly 30000 ms after it was issued
C9_Witness ==
    /\ req.path = PATH_VERIFY_POW
    /\ res.body = "pow"
    /\ res.valid
    /\ now - req.body.val.timestamp.val = 30000

-----------------------------------------------------------------------------
(* C10: malformed input mutates no state.  A verify-human request without  *)
(* fingerprint or without behaviors, and a verify-pow request with a       *)
(* missing field, is answered with status 400 and leaves the fingerprint   *)
(* ledger and the rate-limit table as they were.                           *)
C10_MalformedInputMutatesNothing ==
    [][Malformed(req') =>
         /\ res'.status = 400
         /\ fingerprintStore' = fingerprintStore
         /\ rateLimitStore' = rateLimitStore
    ]_vars

\* a report without behaviors, refused while both tables hold entries
C10_Witness ==
    /\ req.path = PATH_VERIFY_HUMAN
    /\ req.body.val.behaviors = JSUndefined
    /\ req.body.val.fingerprint # JSUndefined
    /\ res.status = 400
    /\ DOMAIN fingerprintStore # {}
    /\ DOMAIN rateLimitStore # {}

-----------------------------------------------------------------------------
(* C5: the rate limiter is a sliding window.  Right after a classified     *)
(* request of an identity, the identity's stored sequence is exactly its   *)
(* requests of the trailing 60 s (so the count is their number), and the   *)
(* signal 'rate-limit-exceeded' is raised exactly when that count is above *)
(* the ceiling of 10; at all times the table holds, for every identity,    *)
(* exactly its requests that are still inside the window.                  *)
C5_SlidingWindow ==
    /\ \A ip \in DOMAIN requestLog :
          Trailing(requestLog[ip], now) =
            IF Has(rateLimitStore, ip) THEN Trailing(rateLimitStore[ip], now) ELSE <<>>
    /\ Classified =>
          LET ip == getClientIP(req)
              at == requestLog[ip][Len(requestLog[ip])]
          IN  /\ Has(rateLimitStore, ip)
              /\ rateLimitStore[ip] = Trailing(requestLog[ip], at)
              /\ Contains(Signals, "rate-limit-exceeded")
                    <=> Len(Trailing(requestLog[ip], at)) > 10
              /\ (Len(requestLog[ip]) > 1
                    /\ at - requestLog[ip][Len(requestLog[ip]) - 1] >= 60000)
                    => Len(rateLimitStore[ip]) = 1

\* the 11th request of one identity inside one window: count 11, signal raised
C5_Witness ==
    /\ Classified
    /\ Len(rateLimitStore[getClientIP(req)]) = 11
    /\ Contains(Signals, "rate-limit-exceeded")
    /\ rateLimitStore[getClientIP(req)][1] < now

\* a request after a quiet full window following a burst above the ceiling: count 1
C5_WitnessQuiet ==
    /\ Classified
    /\ Len(requestLog[getClientIP(req)]) = 12
    /\ rateLimitStore[getClientIP(req)] = <<now>>
    /\ ~Contains(Signals, "rate-limit-exceeded")

\* a step in which /api/verify-human observed a fingerprint
Observation == fingerprintStore' # fingerprintStore

\* the hash and the IP of the observation just made
ObservedHash == fpHashOf(req'.body.val.fingerprint)
ObservingIP == getClientIP(req')

-----------------------------------------------------------------------------
(* C6: fingerprint reuse.  An observation of a hash the ledger does not   *)
(* hold creates its record (count 1, owned by the observing IP) and raises *)
(* no 'fingerprint-reuse'; an observation of a hash the ledger holds       *)
(* raises 'fingerprint-reuse', worth 20 points, exactly when the observing *)
(* IP differs from the record's owning IP.                                 *)
C6_FingerprintReuse ==
    [][Observation =>
        LET known == Has(fingerprintStore, ObservedHash)
            reuse == known /\ fingerprintStore[ObservedHash].ip # ObservingIP
            body == req'.body.val
        IN  /\ res'.body = "verdict"
            /\ Contains(res'.signals, "fingerprint-reuse") <=> reuse
            /\ res'.score - ServerScore(req') - ClientShare(body) - ChecksScore(body.checks)
                 = IF reuse THEN 2 * 20 ELSE 0
            /\ ~known => /\ Has(fingerprintStore', ObservedHash)
                          /\ fingerprintStore'[ObservedHash].count = 1
                          /\ fingerprintStore'[ObservedHash].ip = ObservingIP
    ]_vars

\* H seen from one IP and then from another: the second call flags reuse
C6_Witness ==
    /\ res.body = "verdict"
    /\ Contains(res.signals, "fingerprint-reuse")
    /\ Has(fingerprintStore, fpHashOf(req.body.val.fingerprint))
    /\ fingerprintStore[fpHashOf(req.body.val.fingerprint)].count = 2
    /\ fingerprintStore[fpHashOf(req.body.val.fingerprint)].ip # getClientIP(req)

-----------------------------------------------------------------------------
(* C7 as claimed: the owning IP of every record is the IP of the hash's    *)
(* first observation ever, sweeps included.                                *)
C7_OwnerIsFirstObserver ==
    \A h \in DOMAIN fingerprintStore : fingerprintStore[h].ip = firstObserver[h]

(* C7 amended: the owning IP of a record is never reassigned while the     *)
(* record exists: a record is created with the IP of the observation that  *)
(* creates it and keeps that IP under every later observation and sweep    *)
(* until a sweep destroys it.                                              *)
C7_OwnerNeverReassigned ==
    [][/\ \A h \in (DOMAIN fingerprintStore) \cap (DOMAIN fingerprintStore') :
              fingerprintStore'[h].ip = fingerprintStore[h].ip
       /\ \A h \in (DOMAIN fingerprintStore') \ (DOMAIN fingerprintStore) :
              h = ObservedHash /\ fingerprintStore'[h].ip = ObservingIP
    ]_vars

\* a record observed three times, last by an IP that does not own it
C7_Witness ==
    /\ res.body = "verdict"
    /\ Has(fingerprintStore, fpHashOf(req.body.val.fingerprint))
    /\ fingerprintStore[fpHashOf(req.body.val.fingerprint)].count = 3
    /\ fingerprintStore[fpHashOf(req.body.val.fingerprint)].ip # getClientIP(req)
    /\ fingerprintStore[fpHashOf(req.body.val.fingerprint)].ip
         = firstObserver[fpHashOf(req.body.val.fingerprint)]

-----------------------------------------------------------------------------
(* C8: every record of the ledger has occurrenceCount >= 1 and             *)
(* lastSeen >= firstSeen, and each observation of a hash the ledger holds  *)
(* adds exactly 1 to its count, sets lastSeen to the time of the           *)
(* observation and leaves firstSeen alone.                                 *)
C8_RecordInvariant ==
    /\ [](\A h \in DOMAIN fingerprintStore :
             /\ fingerprintStore[h].count >= 1
             /\ fingerprintStore[h].lastSeen >= fingerprintStore[h].firstSeen)
    /\ [][(Observation /\ Has(fingerprintStore, ObservedHash)) =>
             /\ Has(fingerprintStore', ObservedHash)
             /\ fingerprintStore'[ObservedHash].count
                  = fingerprintStore[ObservedHash].count + 1
             /\ fingerprintStore'[ObservedHash].lastSeen = now
             /\ fingerprintStore'[ObservedHash].firstSeen
                  = fingerprintStore[ObservedHash].firstSeen
       ]_vars

\* a record seen again more than a day after its first observation
C8_Witness ==
    \E h \in DOMAIN fingerprintStore :
        /\ fingerprintStore[h].count >= 2
        /\ fingerprintStore[h].lastSeen - fingerprintStore[h].firstSeen >= 86400000

-----------------------------------------------------------------------------
(* C11: hard block.  A classified request is answered with the inert      *)
(* status-200 page, and no route handler runs for it, exactly when its     *)
(* server-side score is >= 80; every classified request with a score below *)
(* 80 gets the reply of its route.                                         *)
C11_HardBlock ==
    Classified =>
        /\ (res = InertPage) <=> (req.botScore.val >= 80)
        /\ req.botScore.val < 80 => res = Route(req)
        /\ req.botScore.val >= 80 => res # Route(req)

\* a request without user-agent above the rate ceiling: score 90, inert page
C11_Witness ==
    /\ Classified
    /\ req.botScore.val = 90
    /\ res = InertPage

\* a curl request below the rate ceiling: score 60, the route answers
C11_WitnessContinues ==
    /\ Classified
    /\ req.botScore.val = 60
    /\ res = Route(req)
    /\ res.body = "page"

-----------------------------------------------------------------------------
\* the catalog patterns each user-agent of the model matches
CatalogHits ==
    [ua \in UserAgents |-> {i \in 1..Len(botPatterns) : Test(botPatterns[i], ua)}]

Occurrences(seq, x) == Cardinality({i \in 1..Len(seq) : seq[i] = x})

(* C12: for every user-agent that matches at least one catalog pattern,   *)
(* however many it matches, the classifier's score is >= 60 and the signal *)
(* 'bot-ua' is in the request's signal list exactly once.                  *)
C12_BotUAOnce ==
    (Classified /\ CatalogHits[UserAgentOf(req)] # {}) =>
        /\ req.botScore.val >= 60
        /\ Occurrences(Signals, "bot-ua") = 1

\* "Googlebot spider" matches the patterns /bot/i and /spider/i
C12_Witness ==
    /\ Classified
    /\ Cardinality(CatalogHits[UserAgentOf(req)]) >= 2
    /\ req.botScore.val = 60
    /\ Signals = <<"bot-ua">>

-----------------------------------------------------------------------------
\* the timestamps of a sequence less than 60 s old at time t
Fresh(times, t) == SelectSeq(times, LAMBDA x : t - x < 60000)

(* C14: whenever the rate-table sweep runs (at the end of a classified     *)
(* request) it deletes every identity whose timestamps are all older than  *)
(* the 60 s window and keeps every identity with a timestamp inside the    *)
(* window, with exactly its in-window timestamps; after the sweep the      *)
(* table holds no identity with an empty or fully stale sequence.          *)
C14_Sweep ==
    [][swept' =>
         LET requester == getClientIP(req')
         IN  /\ \A ip \in DOMAIN rateLimitStore \ {requester} :
                   IF Fresh(rateLimitStore[ip], now) = <<>>
                   THEN ~Has(rateLimitStore', ip)
                   ELSE /\ Has(rateLimitStore', ip)
                        /\ rateLimitStore'[ip] = Fresh(rateLimitStore[ip], now)
             /\ Has(rateLimitStore', requester)
             /\ rateLimitStore'[requester] =
                   IF Has(rateLimitStore, requester)
                   THEN Append(Fresh(rateLimitStore[requester], now), now)
                   ELSE <<now>>
             /\ DOMAIN rateLimitStore' \subseteq DOMAIN rateLimitStore \cup {requester}
             /\ \A ip \in DOMAIN rateLimitStore' : Fresh(rateLimitStore'[ip], now) # <<>>
      ]_vars

\* a sweep that deleted an identity with two stale requests
C14_Witness ==
    /\ swept
    /\ \E ip \in DOMAIN requestLog :
          /\ Len(requestLog[ip]) = 2
          /\ ~Has(rateLimitStore, ip)
    /\ Has(rateLimitStore, getClientIP(req))

\* a sweep that kept the newer of an identity's two requests and dropped the older
C14_WitnessTrimmed ==
    /\ swept
    /\ \E ip \in DOMAIN rateLimitStore :
          /\ ip # getClientIP(req)
          /\ Len(requestLog[ip]) = 2
          /\ rateLimitStore[ip] = <<requestLog[ip][2]>>

-----------------------------------------------------------------------------
StoredFor(store, ip) == IF Has(store, ip) THEN store[ip] ELSE <<>>

(* C15: no update of the rate-limit table is lost, however the requests of *)
(* different identities and the sweeps interleave.  Each classified        *)
(* request adds exactly one timestamp to what the table held in the window *)
(* for its identity, so that after k requests of an identity inside one    *)
(* window its count is k, and no request or sweep drops a timestamp of     *)
(* another identity that is still inside the window.                       *)
C15_NoLostUpdate ==
    [][requestLog' # requestLog =>
         LET requester == getClientIP(req')
         IN  /\ Len(StoredFor(rateLimitStore', requester))
                   = Len(Fresh(StoredFor(rateLimitStore, requester), now)) + 1
             /\ Len(StoredFor(rateLimitStore', requester))
                   = Len(Fresh(requestLog'[requester], now))
             /\ \A ip \in DOMAIN rateLimitStore \ {requester} :
                   Fresh(StoredFor(rateLimitStore', ip), now)
                     = Fresh(rateLimitStore[ip], now)
      ]_vars

\* requests of two identities and a sweep interleaved inside one window:
\* both counts are complete
C15_Witness ==
    /\ swept
    /\ DOMAIN requestLog = {IP_A, IP_B}
    /\ Len(requestLog[IP_B]) = 2
    /\ requestLog[IP_A][1] < requestLog[IP_B][1]
    /\ requestLog[IP_B][2] = now
    /\ getClientIP(req) = IP_A
    /\ Len(StoredFor(rateLimitStore, IP_A)) = Len(requestLog[IP_A])
    /\ Len(StoredFor(rateLimitStore, IP_A)) >= 3
    /\ Len(StoredFor(rateLimitStore, IP_B)) = 2

-----------------------------------------------------------------------------
\* detect() has returned its result object to the page script
Returned == pc \in {"returned", "submitted", "navigated", "denied"}

\* the checks of detect() other than the headless one and the fingerprint
OtherChecks == {"cdp", "webdriver", "navigatorIssues", "automationArtifacts"}

(* C13: fault isolation of the client detector.  When a single check of    *)
(* detect() throws (here the headless check on a navigator without         *)
(* plugins, or the font fingerprint on a canvas without 2d context), the   *)
(* remaining checks still run, the failed check adds nothing to the score  *)
(* and detect() still returns a result.                                    *)
C13_FaultIsolation ==
    (pc # "load" /\ (HeadlessThrows(browser) \/ FontsThrow(browser))) =>
        /\ pc # "rejected"
        /\ Returned =>
              /\ result # JSUndefined
              /\ OtherChecks \subseteq DOMAIN detector.checks
              /\ detector.fingerprint # JSNull \/ FontsThrow(browser)

-----------------------------------------------------------------------------
\* the score the recorded checks and the fingerprint account for
Contributions(checks, fingerprint) ==
    LET has(k) == k \in DOMAIN checks
    IN  (IF has("cdp") /\ checks["cdp"] THEN 50 ELSE 0)
        + (IF has("webdriver") /\ checks["webdriver"] THEN 45 ELSE 0)
        + (IF has("headlessSignals")
           THEN Min(15 * Len(checks["headlessSignals"]), 45) ELSE 0)
        + (IF has("permissionInconsistency") THEN 20 ELSE 0)
        + (IF has("navigatorIssues")
           THEN Min(10 * Len(checks["navigatorIssues"]), 20) ELSE 0)
        + (IF has("automationArtifacts") /\ Len(checks["automationArtifacts"]) > 0
           THEN 50 ELSE 0)
        + (IF fingerprint.val[1][2] = "null" \/ fingerprint.val[2][2] = "null"
           THEN 15 ELSE 0)

(* C16: the score in the result of detect() is complete and consistent     *)
(* with the checks the result reports.  Wherever the un-awaited            *)
(* permissions check resumes, the returned score is the sum of the         *)
(* contributions of the checks recorded in the returned checks object      *)
(* (with the penalty for a missing canvas or WebGL fingerprint), and no    *)
(* check adds to the detector's score or checks after detect() returned.   *)
C16_ResultComplete ==
    [][/\ Returned' =>
             result'.score = Contributions(detector'.checks, result'.fingerprint)
       /\ Returned =>
             /\ detector'.score = detector.score
             /\ detector'.checks = detector.checks
      ]_vars

-----------------------------------------------------------------------------
\* the page script has posted its result and the server has answered
Submitted == pc \in {"submitted", "navigated", "denied"}

(* C17: double counting end to end.  For a visit that runs the detector    *)
(* with its default weights and posts the unmodified result, one detected  *)
(* ground-truth signal counts on both scoring paths: webdriver alone gives *)
(* a final score >= 45*0.5 + 70 = 92.5, CDP alone >= 50*0.5 + 60 = 85, any *)
(* automation artifact alone >= 50*0.5 + 65 = 90, and each of them alone   *)
(* yields allowed = false.  (Scores are in half-points.)                   *)
C17_DoubleCounting ==
    Submitted =>
        LET checks == req.body.val.checks.val
        IN  /\ req.body.val.clientScore = Num(result.score)
            /\ checks["webdriver"] => (res.score >= 185 /\ ~res.allowed)
            /\ checks["cdp"] => (res.score >= 170 /\ ~res.allowed)
            /\ Len(checks["automationArtifacts"]) > 0
                  => (res.score >= 180 /\ ~res.allowed)
            /\ ~res.allowed => pc # "navigated"

\* a browser whose only finding is navigator.webdriver: 22.5 + 70, denied
C17_Witness ==
    /\ pc = "denied"
    /\ browser.webdriver = JSBool(TRUE)
    /\ result.score = 45
    /\ res.score = 185
    /\ res.signals = <<"webdriver-detected">>
    /\ ~res.allowed

\* a browser whose only finding is the DevTools protocol: 25 + 60, denied
C17_WitnessCdp ==
    /\ pc = "denied"
    /\ browser.cdp
    /\ result.score = 50
    /\ res.score = 170
    /\ ~res.allowed

\* a browser whose only finding is one automation artifact: 25 + 65, denied
C17_WitnessArtifact ==
    /\ pc = "denied"
    /\ browser.playwright
    /\ result.score = 50
    /\ res.score = 180
    /\ ~res.allowed

====
